---- MODULE Spec2Model ----
(***************************************************************************)
(* Model of geo-activity-playground's search filter (core/meta_search.py)  *)
(* and Eddington statistics (webui/eddington_blueprint.py).                *)
(*                                                                         *)
(* Three specifications, one per entry point family:                       *)
(*   SpecEddington : get_eddington_number and the histogram of index()     *)
(*   SpecHistory   : get_eddington_number_history, one loop pass per step  *)
(*   SpecSearch    : apply_search_query                                    *)
(* A missing value (None / NaT / NaN) is a record with null = TRUE; a      *)
(* distance is held in units of 1/HalfKm km so that int() truncation is    *)
(* visible.                                                                *)
(***************************************************************************)
EXTENDS Integers, Sequences, FiniteSets, TLC

VARIABLES
    distances,      \* daily totals handed to get_eddington_number / index
    en,             \* what get_eddington_number returned
    hist,           \* what the histogram part of index() produced
    meta,           \* table handed to get_eddington_number_history
    daily,          \* daily_distances as .items() walks it
    pos,            \* number of daily_distances items already iterated
    top_days,       \* the list top_days
    history,        \* eddington_number_history as a sequence of entries
    pops,           \* pops done by the while loop of the latest pass
    hpc,            \* "idle" | "loop" | "done" | the exception raised
    activity_meta,  \* table handed to apply_search_query
    search_query,   \* the SearchQuery
    result          \* what apply_search_query produced

vars == <<distances, en, hist, meta, daily, pos, top_days, history, pops, hpc,
          activity_meta, search_query, result>>

eddVars == <<distances, en, hist>>
histVars == <<meta, daily, pos, top_days, history, pops, hpc>>
searchVars == <<activity_meta, search_query, result>>

Unset == [status |-> "unset"]

\* a nullable timestamp: NaT, or a calendar day with a time of day
NaT == [null |-> TRUE, day |-> 0, sec |-> 0, us |-> 0]
Timestamp(d, s, u) == [null |-> FALSE, day |-> d, sec |-> s, us |-> u]

\* a nullable distance: NaN, or h units of 1/HalfKm km
NaN == [null |-> TRUE, half |-> 0]
Km(h) == [null |-> FALSE, half |-> h]

(***************************************************************************)
(* Bounds of the model.                                                    *)
(***************************************************************************)
MaxDays == 3        \* length of a collection of daily totals
MaxDist == 3        \* largest daily total in km
MaxRows == 3        \* rows of the table handed to the history
MaxTableRows == 2   \* rows of the table handed to apply_search_query
MaxDate == 3        \* calendar days 1..MaxDate
MaxHalfKm == 6      \* largest distance_km of one row, in 1/HalfKm km
HalfKm == 2         \* distance resolution: units per km

(***************************************************************************)
(* Generic list helpers (Python builtins).                                 *)
(***************************************************************************)
SeqsUpTo(S, n) == UNION {[1..k -> S] : k \in 0..n}

Range(s) == {s[i] : i \in DOMAIN s}

MaxOf(S) == CHOOSE m \in S : \A x \in S : x <= m

RECURSIVE Reverse(_)
Reverse(s) == IF s = <<>> THEN <<>> ELSE Append(Reverse(Tail(s)), Head(s))

\* insert x into the ascending list s, after equal elements
RECURSIVE InsertAsc(_, _)
InsertAsc(s, x) ==
    IF s = <<>> THEN <<x>>
    ELSE IF x < Head(s) THEN <<x>> \o s
    ELSE <<Head(s)>> \o InsertAsc(Tail(s), x)

\* list.sort() / sorted(): ascending
RECURSIVE SortAsc(_)
SortAsc(s) == IF s = <<>> THEN <<>> ELSE InsertAsc(SortAsc(Tail(s)), Head(s))

\* sorted(distances, reverse=True)
SortDesc(s) == Reverse(SortAsc(s))

RECURSIVE CumSum(_)
CumSum(s) ==
    IF s = <<>> THEN <<>>
    ELSE LET front == CumSum(SubSeq(s, 1, Len(s) - 1))
         IN  Append(front, (IF front = <<>> THEN 0 ELSE front[Len(front)]) + s[Len(s)])

IntResult(v) == [status |-> "returned", type |-> "int", val |-> v]
NoneResult == [status |-> "returned", type |-> "NoneType", val |-> 0]

(***************************************************************************)
(* get_eddington_number (eddington_blueprint.py 96-106)                    *)
(***************************************************************************)
\* the for loop over enumerate(sorted_distances, 1), from position k on;
\* falling off the end of the loop returns None
RECURSIVE EnLoop(_, _)
EnLoop(sorted_distances, k) ==
    IF k > Len(sorted_distances) THEN NoneResult
    ELSE IF sorted_distances[k] < k THEN IntResult(k - 1)
    ELSE EnLoop(sorted_distances, k + 1)

get_eddington_number(d) ==
    IF Len(d) = 1 /\ d[1] >= 1 THEN IntResult(1)
    ELSE \* the inner else branch evaluates the expression 0 and falls through
         EnLoop(SortDesc(d), 1)

(***************************************************************************)
(* Histogram part of index() (eddington_blueprint.py 29-42)                *)
(***************************************************************************)
\* what DataFrame.groupby(key).apply(f, include_groups=False) returns for f
\* returning a number: a Series with one value per group, but for zero
\* groups an empty DataFrame that keeps the columns of the grouped table
GroupApplyType(groups) == IF groups = <<>> THEN "DataFrame" ELSE "Series"

\* dict(zip(*np.unique(sorted(sum_per_day), return_counts=True)))
Counts(sum_per_day) ==
    [d \in Range(SortAsc(sum_per_day)) |->
        Cardinality({i \in DOMAIN sum_per_day : sum_per_day[i] = d})]

\* eddington["count"][::-1].cumsum()[::-1]
TotalColumnForward(count) == CumSum(count)

TotalColumn(count) == Reverse(CumSum(Reverse(count)))

\* rows of the frame for d in range(max(counts.keys()) + 1), index k = d + 1
EddingtonFrame(counts) ==
    LET n == MaxOf(DOMAIN counts) + 1
        count == [k \in 1..n |-> IF (k - 1) \in DOMAIN counts THEN counts[k - 1] ELSE 0]
        total == TotalColumn(count)
    IN  [k \in 1..n |->
            [distance_km |-> k - 1, count |-> count[k], total |-> total[k],
             missing |-> (k - 1) - total[k]]]

\* eddington.loc[total >= distance_km]["distance_km"]
PrefixRows(frame) ==
    LET RECURSIVE Sel(_)
        Sel(k) == IF k > Len(frame) THEN <<>>
                  ELSE (IF frame[k].total >= frame[k].distance_km
                        THEN <<frame[k].distance_km>> ELSE <<>>) \o Sel(k + 1)
    IN  Sel(1)

\* lines 29-42 for the given per-day totals (one per group of line 29)
index_histogram(sum_per_day) ==
    IF GroupApplyType(sum_per_day) = "DataFrame"
    THEN \* sorted() iterates the column labels of the empty frame, counts is
         \* keyed by strings and max(counts.keys()) + 1 adds 1 to a string
         [status |-> "TypeError", frame |-> <<>>, en |-> 0]
    ELSE LET frame == EddingtonFrame(Counts(sum_per_day))
             sel == PrefixRows(frame)
         IN  IF sel = <<>>
             THEN [status |-> "IndexError", frame |-> frame, en |-> 0]
             ELSE [status |-> "ok", frame |-> frame, en |-> sel[Len(sel)]]

(***************************************************************************)
(* SpecEddington                                                           *)
(***************************************************************************)
HistoryIdle ==
    /\ meta = <<>> /\ daily = <<>> /\ pos = 0 /\ top_days = <<>>
    /\ history = <<>> /\ pops = 0 /\ hpc = "idle"

SearchIdle ==
    /\ activity_meta = <<>> /\ search_query = <<>> /\ result = Unset

EddingtonIdle ==
    /\ distances = <<>> /\ en = Unset /\ hist = Unset

InitEddington ==
    /\ distances \in SeqsUpTo(0..MaxDist, MaxDays)
    /\ en = Unset
    /\ hist = Unset
    /\ HistoryIdle
    /\ SearchIdle

CallGetEddingtonNumber ==
    /\ en = Unset
    /\ en' = get_eddington_number(distances)
    /\ UNCHANGED <<distances, hist, histVars, searchVars>>

CallIndexHistogram ==
    /\ hist = Unset
    /\ hist' = index_histogram(distances)
    /\ UNCHANGED <<distances, en, histVars, searchVars>>

NextEddington == CallGetEddingtonNumber \/ CallIndexHistogram

SpecEddington == InitEddington /\ [][NextEddington]_vars

(***************************************************************************)
(* get_eddington_number_history (eddington_blueprint.py 125-148)           *)
(***************************************************************************)
\* meta.dropna(subset=["start", "distance_km"])
DropNa(m) ==
    LET RECURSIVE Keep(_)
        Keep(k) == IF k > Len(m) THEN <<>>
                   ELSE (IF m[k].start.null \/ m[k].distance_km.null
                         THEN <<>> ELSE <<m[k]>>) \o Keep(k + 1)
    IN  Keep(1)

\* start.date()
DateOf(start) == start.day

\* group2["distance_km"].sum() over the rows of one date, in 1/HalfKm km
RECURSIVE SumHalf(_, _)
SumHalf(m, date) ==
    IF m = <<>> THEN 0
    ELSE (IF DateOf(Head(m).start) = date THEN Head(m).distance_km.half ELSE 0)
         + SumHalf(Tail(m), date)

\* int(x) of a non-negative float: truncation to whole km
IntKm(half) == half \div HalfKm

\* an empty pandas Series
EmptySeries == [kind |-> "Series", values |-> <<>>]

\* columns of meta left in the groups: those of the rows, and year (line 127)
MetaColumns == <<"start", "distance_km", "year">>

\* meta.groupby("date").apply(lambda g: int(g["distance_km"].sum())), as
\* .items() walks it: one (date, total) item per distinct date, dates
\* ascending; with no complete row there is no group, the result is an
\* empty DataFrame and the items are its (column label, empty Series) pairs
DailyDistances(m) ==
    LET kept == DropNa(m)
        dates == SortAsc(LET S == {DateOf(kept[k].start) : k \in DOMAIN kept}
                         IN  CHOOSE q \in [1..Cardinality(S) -> S] : Range(q) = S)
    IN  IF GroupApplyType(dates) = "DataFrame"
        THEN [k \in DOMAIN MetaColumns |->
                [kind |-> "column", label |-> MetaColumns[k], series |-> EmptySeries]]
        ELSE [k \in DOMAIN dates |->
                [kind |-> "day", date |-> dates[k],
                 distance |-> IntKm(SumHalf(kept, dates[k]))]]

\* lines 137-142: the insertion into top_days
InsertDay(t, distance) ==
    IF Len(t) = 0 THEN Append(t, distance)
    ELSE IF distance >= t[1] THEN SortAsc(Append(t, distance))
    ELSE t

\* line 143: the condition of the while loop, t non-empty
WhileCondOffByOne(t) == t[1] < Len(t) - 1

WhileCond(t) == t[1] < Len(t)

\* lines 143-144: while top_days[0] < len(top_days): top_days.pop(0);
\* top_days[0] of an empty list raises IndexError
RECURSIVE PopLoop(_, _)
PopLoop(t, n) ==
    IF t = <<>> THEN [fault |-> TRUE, list |-> t, pops |-> n]
    ELSE IF WhileCond(t) THEN PopLoop(Tail(t), n + 1)
    ELSE [fault |-> FALSE, list |-> t, pops |-> n]

\* datetime.datetime.combine(date, datetime.datetime.min.time())
MidnightOf(date) == Timestamp(date, 0, 0)

\* rows of meta: every complete row, a row without start and a row without
\* distance
MetaRows ==
    [start : {Timestamp(d, 36000, 0) : d \in 1..MaxDate},
     distance_km : {Km(h) : h \in 0..MaxHalfKm}]
    \cup {[start |-> NaT, distance_km |-> Km(MaxHalfKm)],
          [start |-> Timestamp(1, 36000, 0), distance_km |-> NaN]}

InitHistory ==
    /\ \E n \in 0..MaxRows : meta \in [1..n -> MetaRows]
    /\ daily = <<>> /\ pos = 0 /\ top_days = <<>>
    /\ history = <<>> /\ pops = 0 /\ hpc = "idle"
    /\ EddingtonIdle
    /\ SearchIdle

\* lines 126-135: up to the start of the loop; there is always an item
GroupByDate ==
    /\ hpc = "idle"
    /\ daily' = DailyDistances(meta)
    /\ hpc' = "loop"
    /\ top_days' = <<>>
    /\ history' = <<>>
    /\ UNCHANGED <<meta, pos, pops, eddVars, searchVars>>

\* lines 136-148: one pass of the for loop
LoopPass ==
    /\ hpc = "loop"
    /\ pos < Len(daily)
    /\ LET item == daily[pos + 1]
       IN  IF item.kind = "column"
           THEN \* top_days is empty: the empty Series is appended, and the
                \* while condition compares it with 1.  A datetime column
                \* rejects the comparison (TypeError); for any other column
                \* the truth value of the resulting Series is asked for
                \* (ValueError).  Which column comes first is the caller's.
                /\ top_days' = Append(top_days, item.series)
                /\ hpc' \in {"TypeError", "ValueError"}
                /\ UNCHANGED <<pos, pops, history>>
           ELSE LET r == PopLoop(InsertDay(top_days, item.distance), 0)
                IN  /\ top_days' = r.list
                    /\ pops' = r.pops
                    /\ IF r.fault
                       THEN /\ hpc' = "IndexError"
                            /\ UNCHANGED <<pos, history>>
                       ELSE /\ history' = Append(history,
                                   [date |-> MidnightOf(item.date),
                                    eddington_number |-> Len(r.list)])
                            /\ pos' = pos + 1
                            /\ hpc' = IF pos' = Len(daily) THEN "done" ELSE "loop"
    /\ UNCHANGED <<meta, daily, eddVars, searchVars>>

NextHistory == GroupByDate \/ LoopPass

SpecHistory == InitHistory /\ [][NextHistory]_vars

(***************************************************************************)
(* SearchQuery and apply_search_query (meta_search.py)                     *)
(* Text is a sequence of one-character strings.  A name pattern is a       *)
(* sequence of tokens: a literal character, "." (any character) or "("     *)
(* (an opening group; no token closes it, so it never compiles).           *)
(* The start column has a datetime dtype: a missing start is NaT.          *)
(***************************************************************************)
NoText == [null |-> TRUE, text |-> <<>>]
Text(t) == [null |-> FALSE, text |-> t]

NoDate == [null |-> TRUE, day |-> 0]
Date(d) == [null |-> FALSE, day |-> d]

\* truthiness of a list, of an Optional[str], of an Optional[date]
TruthyList(l) == Len(l) > 0
TruthyText(n) == ~n.null /\ Len(n.text) > 0
TruthyDate(d) == ~d.null

\* SearchQuery.active
Active(q) ==
    \/ TruthyList(q.equipment)
    \/ TruthyList(q.kind)
    \/ TruthyText(q.name)
    \/ TruthyDate(q.start_begin)
    \/ TruthyDate(q.start_end)

\* _make_mask(index, default)
MakeMaskInverted(n, default) == [k \in 1..n |-> ~default]

MakeMask(n, default) == [k \in 1..n |-> default]

MaskAnd(a, b) == [k \in DOMAIN a |-> a[k] /\ b[k]]
MaskOr(a, b) == [k \in DOMAIN a |-> a[k] \/ b[k]]

\* column == value, elementwise
ColumnEq(column, value) == [k \in DOMAIN column |-> column[k] = value]

\* _filter_column(column, values)
RECURSIVE FilterLoop(_, _, _)
FilterLoop(sub_mask, column, values) ==
    IF values = <<>> THEN sub_mask
    ELSE FilterLoop(MaskOr(sub_mask, ColumnEq(column, Head(values))),
                    column, Tail(values))

FilterColumnFirstOnly(column, values) ==
    FilterLoop(MakeMask(Len(column), FALSE), column, <<Head(values)>>)

FilterColumn(column, values) ==
    FilterLoop(MakeMask(Len(column), FALSE), column, values)

\* re.compile fails on an unterminated group
Malformed(pattern) == \E k \in DOMAIN pattern : pattern[k] = "("

\* str.lower() of one character, as re.IGNORECASE folds it
Lower(c) == CASE c = "T" -> "t" [] c = "A" -> "a" [] c = "B" -> "b" [] OTHER -> c

TokenMatches(token, c, case_sensitive) ==
    \/ token = "."
    \/ IF case_sensitive THEN token = c ELSE Lower(token) = Lower(c)

\* bool(re.search(pattern, text, 0 if case_sensitive else re.IGNORECASE)),
\* pattern well formed: a match may start at any offset of the text
ReSearch(pattern, text, case_sensitive) ==
    \E o \in 0..(Len(text) - Len(pattern)) :
        \A k \in DOMAIN pattern : TokenMatches(pattern[k], text[o + k], case_sensitive)

\* lines 78-90: the list comprehension over activity_meta["name"]; the first
\* re.search call raises re.error when the pattern does not compile
NameMaskSilent(column, q) ==
    IF Malformed(q.name.text)
    THEN [error |-> FALSE, mask |-> MakeMask(Len(column), FALSE)]
    ELSE [error |-> FALSE,
          mask |-> [k \in DOMAIN column |->
                      ReSearch(q.name.text, column[k], q.name_case_sensitive)]]

NameMask(column, q) ==
    IF Len(column) > 0 /\ Malformed(q.name.text)
    THEN [error |-> TRUE, mask |-> <<>>]
    ELSE [error |-> FALSE,
          mask |-> [k \in DOMAIN column |->
                      ReSearch(q.name.text, column[k], q.name_case_sensitive)]]

\* datetime.time.min and datetime.time.max
TimeMin == [sec |-> 0, us |-> 0]
TimeMax == [sec |-> 86399, us |-> 999999]

\* datetime.datetime.combine(date, time)
Combine(date, time) == Timestamp(date.day, time.sec, time.us)

\* a <= b on timestamps; any comparison with NaT is False
TsLe(a, b) ==
    /\ ~a.null
    /\ ~b.null
    /\ \/ a.day < b.day
       \/ a.day = b.day /\ a.sec < b.sec
       \/ a.day = b.day /\ a.sec = b.sec /\ a.us <= b.us

\* lines 96-98 with the end of the range taken at the start of the day
EndMaskTimeMin(column, date) ==
    [k \in DOMAIN column |-> TsLe(column[k], Combine(date, TimeMin))]

\* lines 91-95
BeginMask(column, date) ==
    [k \in DOMAIN column |-> TsLe(Combine(date, TimeMin), column[k])]

\* lines 96-98
EndMask(column, date) ==
    [k \in DOMAIN column |-> TsLe(column[k], Combine(date, TimeMax))]

Column(table, field) == [k \in DOMAIN table |-> table[k][field]]

\* activity_meta.loc[mask]
Loc(table, mask) ==
    LET RECURSIVE Sel(_)
        Sel(k) == IF k > Len(table) THEN <<>>
                  ELSE (IF mask[k] THEN <<table[k]>> ELSE <<>>) \o Sel(k + 1)
    IN  Sel(1)

apply_search_query(table, q) ==
    LET m0 == MakeMask(Len(table), TRUE)
        m1 == IF TruthyList(q.equipment)
              THEN MaskAnd(m0, FilterColumn(Column(table, "equipment"), q.equipment))
              ELSE m0
        m2 == IF TruthyList(q.kind)
              THEN MaskAnd(m1, FilterColumn(Column(table, "kind"), q.kind))
              ELSE m1
        nm == NameMask(Column(table, "name"), q)
        raised == TruthyText(q.name) /\ nm.error
        m3 == IF TruthyText(q.name) THEN MaskAnd(m2, nm.mask) ELSE m2
        m4 == IF ~q.start_begin.null
              THEN MaskAnd(m3, BeginMask(Column(table, "start"), q.start_begin))
              ELSE m3
        m5 == IF ~q.start_end.null
              THEN MaskAnd(m4, EndMask(Column(table, "start"), q.start_end))
              ELSE m4
    IN  IF raised THEN [status |-> "re.error", rows |-> <<>>]
        ELSE [status |-> "ok", rows |-> Loc(table, m5)]

(***************************************************************************)
(* SpecSearch                                                              *)
(***************************************************************************)
RowPool ==
    { [equipment |-> "A", kind |-> "X", name |-> <<"T", "a">>,
       start |-> Timestamp(1, 36000, 0)],
      [equipment |-> "B", kind |-> "X", name |-> <<"t", "b">>,
       start |-> Timestamp(2, 0, 0)],
      [equipment |-> "B", kind |-> "Y", name |-> <<"T", "b">>,
       start |-> NaT],
      [equipment |-> "A", kind |-> "Y", name |-> <<"a">>,
       start |-> Timestamp(1, 86399, 999999)],
      [equipment |-> "B", kind |-> "X", name |-> <<"T", "a">>,
       start |-> Timestamp(2, 36000, 0)],
      [equipment |-> "A", kind |-> "X", name |-> <<"b">>,
       start |-> NaT] }

\* a table: rows of the pool, the id column numbering them 1..n
WithId(row, id) ==
    [id |-> id, equipment |-> row.equipment, kind |-> row.kind,
     name |-> row.name, start |-> row.start]

Tables ==
    {[k \in DOMAIN t |-> WithId(t[k], k)] : t \in SeqsUpTo(RowPool, MaxTableRows)}

Lists(S) == SeqsUpTo(S, Cardinality(S))

NamePool ==
    {NoText, Text(<<>>), Text(<<"t">>), Text(<<"T">>), Text(<<"a">>),
     Text(<<".", "b">>), Text(<<"t", "a">>), Text(<<"(">>), Text(<<"t", "(">>)}

DatePool == {NoDate} \cup {Date(r.start.day) : r \in {x \in RowPool : ~x.start.null}}

Queries ==
    [equipment : Lists({"A", "B"}), kind : Lists({"X", "Y"}), name : NamePool,
     name_case_sensitive : BOOLEAN, start_begin : DatePool, start_end : DatePool]

InitSearch ==
    /\ activity_meta \in Tables
    /\ search_query = <<>>
    /\ result = Unset
    /\ EddingtonIdle
    /\ HistoryIdle

CallApplySearchQuery ==
    /\ result = Unset
    /\ \E q \in Queries :
          /\ search_query' = q
          /\ result' = apply_search_query(activity_meta, q)
    /\ UNCHANGED <<activity_meta, eddVars, histVars>>

NextSearch == CallApplySearchQuery

SpecSearch == InitSearch /\ [][NextSearch]_vars

(***************************************************************************)
(* Reference definition used by the properties: the largest E such that   *)
(* at least E of the values are >= E.                                      *)
(***************************************************************************)
EddingtonOf(s) ==
    MaxOf({E \in 0..Len(s) : Cardinality({i \in DOMAIN s : s[i] >= E}) >= E})

\* the largest E >= 1 whose E-th largest value is >= E, 0 when there is none
LargestRank(s) ==
    MaxOf({0} \cup {E \in 1..Len(s) : SortDesc(s)[E] >= E})

\* C1: for every collection of daily totals (the empty one is the subject of
\* C6 and left out here) get_eddington_number returns an integer, and it is
\* the largest E such that the E-th largest daily total is >= E (0 when no
\* E >= 1 fits).
C1_ReturnsLargestRank ==
    (en # Unset /\ distances # <<>>) => en = IntResult(LargestRank(distances))

TotalNonIncreasing(frame) ==
    \A k \in 1..(Len(frame) - 1) : frame[k].total >= frame[k + 1].total

PrefixContiguous(frame) ==
    \A k \in DOMAIN frame :
        frame[k].total >= frame[k].distance_km
            => \A j \in 1..k : frame[j].total >= frame[j].distance_km

\* C5: for non-empty daily totals the histogram covers d = 0..max, total is
\* non-increasing, the rows with total >= d are a prefix starting at d = 0,
\* and the number shown (last row of that prefix) is the largest d with
\* total[d] >= d, which is the Eddington number of the daily totals.
C5_HistogramEddington ==
    (hist # Unset /\ distances # <<>>) =>
        /\ hist.status = "ok"
        /\ Len(hist.frame) = MaxOf(Range(distances)) + 1
        /\ \A k \in DOMAIN hist.frame :
              /\ hist.frame[k].distance_km = k - 1
              /\ hist.frame[k].total =
                    Cardinality({i \in DOMAIN distances : distances[i] >= k - 1})
        /\ TotalNonIncreasing(hist.frame)
        /\ PrefixContiguous(hist.frame)
        /\ hist.frame[1].total >= hist.frame[1].distance_km
        /\ hist.en = MaxOf({r.distance_km : r \in
                             {q \in Range(hist.frame) : q.total >= q.distance_km}})
        /\ hist.en = EddingtonOf(distances)

C5_Witness ==
    /\ hist # Unset
    /\ hist.status = "ok"
    /\ Len(distances) = 3
    /\ hist.en = 2
    /\ Len(hist.frame) = 4

\* C6: with zero daily totals both computations give Eddington number 0,
\* the histogram is empty and nothing is raised.
C6_EmptyInputIsZero ==
    (distances = <<>> /\ en # Unset /\ hist # Unset) =>
        /\ hist.status = "ok"
        /\ hist.frame = <<>>
        /\ hist.en = 0
        /\ en = IntResult(0)

(***************************************************************************)
(* Properties of get_eddington_number_history, checked under SpecHistory.  *)
(***************************************************************************)
\* daily_distances holds daily totals (there was at least one complete row)
HasDailyTotals == daily # <<>> /\ daily[1].kind = "day"

Faulted == hpc \in {"IndexError", "TypeError", "ValueError"}

\* the daily totals of the first i days, in chronological order
TotalsUpTo(i) == [k \in 1..i |-> daily[k].distance]

\* C2: the running number recorded for day i is the Eddington number of the
\* daily totals of days 1..i.
C2_RunningNumberIsEddington ==
    \A i \in DOMAIN history :
        history[i].eddington_number = EddingtonOf(TotalsUpTo(i))

\* C7: for every non-empty sequence of daily totals the loop raises nothing
\* and, once finished, has appended one entry per distinct date, ascending.
C7_LoopCompletes ==
    HasDailyTotals =>
        /\ ~Faulted
        /\ hpc = "done" =>
              /\ Len(history) = Len(daily)
              /\ \A i \in DOMAIN history :
                    /\ history[i].date = MidnightOf(daily[i].date)
                    /\ history[i].eddington_number >= 0
              /\ \A i \in 1..(Len(history) - 1) :
                    history[i].date.day < history[i + 1].date.day

\* C10: when the first daily total is >= 1, after each pass every value in
\* top_days is >= len(top_days), the pass popped at most one element, the
\* loop has not faulted, and the recorded numbers never decrease.
C10_TopDaysInvariant ==
    (HasDailyTotals /\ daily[1].distance >= 1) =>
        /\ ~Faulted
        /\ \A k \in DOMAIN top_days : top_days[k] >= Len(top_days)
        /\ pops <= 1
        /\ Len(history) = pos
        /\ pos >= 1 => history[pos].eddington_number = Len(top_days)
        /\ \A i \in 1..(Len(history) - 1) :
              history[i].eddington_number <= history[i + 1].eddington_number

\* three days with totals 2, 3, 2: the third day is appended behind the 3,
\* the sort moves it forward, and the smallest of three elements is popped
C10_Witness ==
    /\ hpc = "done"
    /\ HasDailyTotals
    /\ Len(daily) = 3
    /\ TotalsUpTo(3) = <<2, 3, 2>>
    /\ pops = 1
    /\ top_days = <<2, 3>>
    /\ history[1].eddington_number = 1
    /\ history[2].eddington_number = 2
    /\ history[3].eddington_number = 2

(***************************************************************************)
(* Properties of apply_search_query, checked under SpecSearch.             *)
(***************************************************************************)
Applied == result # Unset

\* the call raised because the populated name pattern does not compile
BadPattern ==
    /\ TruthyText(search_query.name)
    /\ Malformed(search_query.name.text)

\* row-wise statement of the filter: AND over the populated fields, OR over
\* the values of equipment and of kind
RowPasses(row, q) ==
    /\ q.equipment # <<>> => row.equipment \in Range(q.equipment)
    /\ q.kind # <<>> => row.kind \in Range(q.kind)
    /\ TruthyText(q.name) => ReSearch(q.name.text, row.name, q.name_case_sensitive)
    /\ ~q.start_begin.null => (~row.start.null /\ row.start.day >= q.start_begin.day)
    /\ ~q.start_end.null => (~row.start.null /\ row.start.day <= q.start_end.day)

\* s is t with some rows left out, the others in their order
IsSubsequence(s, t) ==
    \E f \in [DOMAIN s -> DOMAIN t] :
        /\ \A i \in DOMAIN s : s[i] = t[f[i]]
        /\ \A i, j \in DOMAIN s : i < j => f[i] < f[j]

InResult(row) == \E j \in DOMAIN result.rows : result.rows[j] = row

\* C3: the call returns exactly the rows that pass every populated field,
\* unchanged (identifier included) and in the table's order.
C3_ExactFilter ==
    (Applied /\ ~(BadPattern /\ activity_meta # <<>>)) =>
        /\ result.status = "ok"
        /\ IsSubsequence(result.rows, activity_meta)
        /\ \A k \in DOMAIN activity_meta :
              InResult(activity_meta[k]) <=> RowPasses(activity_meta[k], search_query)

C3_Witness ==
    /\ Applied
    /\ result.status = "ok"
    /\ Len(activity_meta) = 2
    /\ Len(search_query.equipment) = 2
    /\ search_query.equipment[1] # search_query.equipment[2]
    /\ Len(search_query.kind) = 1
    /\ search_query.name = Text(<<".", "b">>)
    /\ ~search_query.start_begin.null
    /\ result.rows = <<activity_meta[2]>>

\* C4: a query whose active flag is falsy returns the whole table, rows
\* without a start included, in the same order.
C4_EmptyQueryIdentity ==
    (Applied /\ ~Active(search_query)) =>
        /\ result.status = "ok"
        /\ result.rows = activity_meta

C4_Witness ==
    /\ Applied
    /\ ~Active(search_query)
    /\ Len(activity_meta) = 2
    /\ activity_meta[1].start.null
    /\ ~activity_meta[2].start.null
    /\ result.rows = activity_meta

\* C8 as stated: a malformed name pattern makes the call fail with an
\* InvalidQuery error.
C8_RaisesInvalidQuery ==
    (Applied /\ BadPattern) => result.status = "InvalidQuery"

\* C8 amended: on a table with at least one row a malformed name pattern
\* makes the call raise re.error, and no table is returned.
C8_RaisesReError ==
    (Applied /\ BadPattern /\ activity_meta # <<>>) =>
        /\ result.status = "re.error"
        /\ result.rows = <<>>

C8_Witness ==
    /\ Applied
    /\ BadPattern
    /\ Len(activity_meta) = 2
    /\ search_query.equipment = <<"B">>
    /\ result.status = "re.error"

\* C9: both ends of the date range are whole days, inclusive: a returned row
\* has a start, on or after the day start_begin and on or before the day
\* start_end; when only the dates are populated the converse holds too.
InDateRange(row, q) ==
    /\ (~q.start_begin.null \/ ~q.start_end.null) => ~row.start.null
    /\ ~q.start_begin.null => row.start.day >= q.start_begin.day
    /\ ~q.start_end.null => row.start.day <= q.start_end.day

OnlyDates(q) == ~TruthyList(q.equipment) /\ ~TruthyList(q.kind) /\ ~TruthyText(q.name)

C9_DateRangeInclusive ==
    (Applied /\ result.status = "ok") =>
        \A k \in DOMAIN activity_meta :
            /\ InResult(activity_meta[k]) => InDateRange(activity_meta[k], search_query)
            /\ OnlyDates(search_query) =>
                  (InDateRange(activity_meta[k], search_query)
                      => InResult(activity_meta[k]))

\* the last instant of start_end and the first instant of start_begin are
\* both kept, a row without start is dropped
C9_Witness ==
    /\ Applied
    /\ result.status = "ok"
    /\ search_query.start_begin = Date(1)
    /\ search_query.start_end = Date(1)
    /\ Len(activity_meta) = 2
    /\ activity_meta[1].start.null
    /\ activity_meta[2].start = Timestamp(1, 86399, 999999)
    /\ result.rows = <<activity_meta[2]>>

====
